---- MODULE Spec2Model ----
(***************************************************************************)
(* generate_spectrograms.py: the batch Driver main() and the Converter     *)
(* create_spectrogram(), over an abstract filesystem.                      *)
(*                                                                         *)
(* A file name is a sequence of tokens ("a", "b", ".", "wav", "txt",       *)
(* "png"); a directory is the sequence of its entries in the order the     *)
(* filesystem enumerates them.  Lengths in inches are kept in hundredths   *)
(* (2.78 in = 278), so pixel extents are kept in hundredths of a pixel.    *)
(***************************************************************************)
EXTENDS Integers, Sequences, FiniteSets, TLC

VARIABLES
    inroot,           \* input_dir.exists()
    present,          \* the subdirectories of input_dir that exist
    listing,          \* directory name -> its entries, in enumeration order
    outroot,          \* what lies at output_dir: "absent", "dir" or "file"
    outsub,           \* method -> what lies at output_dir/method
    out,              \* <<method, file name>> under output_dir -> content
    pc,               \* position of main()
    mi,               \* index into methods of the outer for loop
    wav_files,        \* main's wav_files of the current method
    fi,               \* index into wav_files of the inner for loop
    total_files,      \* main's total_files
    processed_files,  \* main's processed_files
    log,              \* the lines printed so far by this run
    calls,            \* the create_spectrogram calls made so far by this run
    figures,          \* pyplot figures open in this process
    figpx,            \* extent (1/100 px) of the figure opened last, else <<0,0>>
    fswrites,         \* the paths this run has created or written
    run,              \* 1 in the first run of the script, 2 in the second
    prev              \* what the first run left behind, once it has ended

vars == <<inroot, present, listing, outroot, outsub, out, pc, mi, wav_files, fi,
          total_files, processed_files, log, calls, figures, figpx, fswrites,
          run, prev>>

(***************************************************************************)
(* Bounds of the model.                                                    *)
(***************************************************************************)
MaxPresent == 2

MaxWavs == 2

(***************************************************************************)
(* Program constants.                                                      *)
(***************************************************************************)
methods ==
    <<"clean", "noisy", "sgmsep", "vpidm", "flowse", "vpvid_sde", "vpvid_sdec",
      "vpvid_ode">>

MethodSet == {methods[i] : i \in 1..Len(methods)}

\* a figure a twelfth of an inch shorter
FigsizeShort == <<500, 270>>

\* figsize=(5, 2.78), in hundredths of an inch
DefaultFigsize == <<500, 278>>

DefaultDpi == 72

(***************************************************************************)
(* The input tree the model draws from.                                    *)
(***************************************************************************)
Extra == "extra"

Dirs == MethodSet \cup {Extra}

DirListings ==
    { <<>>,
      << <<"a", ".", "txt">>, <<"a", ".", "wav">> >>,
      << <<"a", ".", "wav">>, <<"a", ".", "b", ".", "wav">> >>,
      << <<".", "wav">>, <<".", "wav", ".", "wav">> >> }

(***************************************************************************)
(* pathlib: Path.glob("*.wav"), Path.stem.                                 *)
(***************************************************************************)
\* fnmatch of a name against "*.wav"
IsWav(name) ==
    /\ Len(name) >= 2
    /\ name[Len(name) - 1] = "."
    /\ name[Len(name)] = "wav"

\* list(method_dir.glob("*.wav")): the matching entries, in directory order
GlobWav(entries) == SelectSeq(entries, IsWav)

\* name.rfind('.'), 1-based; 0 when there is no dot
RFindDot(name) ==
    LET dots == {i \in 1..Len(name) : name[i] = "."}
    IN  IF dots = {} THEN 0 ELSE CHOOSE i \in dots : \A j \in dots : j <= i

\* Path.stem: the name up to its last dot, when that dot is neither the
\* first nor the last character
Stem(name) ==
    LET i == RFindDot(name)
    IN  IF 1 < i /\ i < Len(name) THEN SubSeq(name, 1, i - 1) ELSE name

\* output_method_dir / f"{wav_file.stem}.png"
OutputFile(m, name) == <<m, Stem(name) \o <<".", "png">> >>

(***************************************************************************)
(* Path.mkdir(exist_ok=True) on a path holding st.  A missing directory is *)
(* created, or the call raises OSError (parent not writable, ...); a       *)
(* non-directory at the path raises FileExistsError.                       *)
(***************************************************************************)
MkdirNoExistOk(st) ==
    IF st = "absent" THEN {"created", "raise"} ELSE {"raise"}

Mkdir(st) ==
    CASE st = "dir"    -> {"exists"}
      [] st = "file"   -> {"raise"}
      [] st = "absent" -> {"created", "raise"}

(***************************************************************************)
(* create_spectrogram.  An outcome is "ok" or the place where the call     *)
(* raised, as far as its effects differ:                                   *)
(*   "analysis"  decode or transform: librosa.load, melspectrogram or      *)
(*               power_to_db raised (lines 29-33), or plt.figure did, so   *)
(*               that no figure exists;                                    *)
(*   "render"    a later step raised with the figure open and nothing      *)
(*               written to output_path (subplots_adjust, specshow, axis,  *)
(*               tight_layout, or savefig before it wrote);                *)
(*   "save"      savefig raised after it began writing to output_path.     *)
(***************************************************************************)
ConvertOutcomes == {"ok", "analysis", "render", "save"}

\* plt.figure(figsize=figsize, dpi=dpi) has returned
FigureOpened(o) == o \in {"ok", "render", "save"}

\* plt.close() was reached
FigureClosed(o) == o = "ok"

FiguresAfter(n, o) == IF FigureOpened(o) /\ ~FigureClosed(o) THEN n + 1 ELSE n

\* figsize * dpi, in hundredths of a pixel
FigurePixels(figsize, dpi) == <<figsize[1] * dpi, figsize[2] * dpi>>

\* the image a deterministic renderer makes of one audio file
Image(audio) == <<"image", audio>>

\* the output tree after savefig(output_path) inside a call ending in o
DestAfter(files, path, audio, o) ==
    CASE o = "ok" ->
           [p \in DOMAIN files \cup {path} |->
               IF p = path THEN Image(audio) ELSE files[p]]
      [] o = "save" ->
           [p \in DOMAIN files \cup {path} |->
               IF p = path THEN <<"partial">> ELSE files[p]]
      [] OTHER -> files

\* the one line the call prints
ProgressLine(path, audio, o) ==
    IF o = "ok" THEN <<"ok", path>> ELSE <<"error", audio>>

\* a counter of the conversions that succeeded
ProcessedIfOk(n, o) == IF o = "ok" THEN n + 1 ELSE n

\* processed_files += 1, after the call has returned
ProcessedAfter(n, o) == n + 1

\* an except clause that handles the errors of decoding and transforming only
CaughtAnalysisOnly(o) == o \in {"ok", "analysis"}

\* except Exception: the call returns normally whatever step raised
Caught(o) == o \in ConvertOutcomes

(***************************************************************************)
(* Initial states: a fresh process in front of some input and output trees.*)
(***************************************************************************)
\* the number of "*.wav" entries in the directories D of the tree ls
NumWavs(D, ls) ==
    LET Count[S \in SUBSET D] ==
            IF S = {} THEN 0
            ELSE LET d == CHOOSE x \in S : TRUE
                 IN  Len(GlobWav(ls[d])) + Count[S \ {d}]
    IN  Count[D]

PresentSets == {S \in SUBSET MethodSet : Cardinality(S) <= MaxPresent}

ExtraListing == << <<"a", ".", "txt">>, <<"a", ".", "wav">> >>

InputTree(S, ls) ==
    [d \in Dirs |-> IF d \in S THEN ls[d]
                    ELSE IF d = Extra THEN ExtraListing ELSE <<>>]

Init ==
    /\ inroot \in BOOLEAN
    /\ \E S \in PresentSets : \E ls \in [S -> DirListings] :
          /\ inroot = FALSE => S = {}
          /\ present = IF inroot THEN S \cup {Extra} ELSE {}
          /\ listing = IF inroot THEN InputTree(S, ls) ELSE [d \in Dirs |-> <<>>]
          /\ NumWavs(S, InputTree(S, ls)) <= MaxWavs
    /\ outroot \in {"absent", "dir", "file"}
    /\ outsub = [m \in MethodSet |-> "absent"]
    /\ out = <<>>
    /\ pc = "start"
    /\ mi = 1
    /\ wav_files = <<>>
    /\ fi = 1
    /\ total_files = 0
    /\ processed_files = 0
    /\ log = <<>>
    /\ calls = <<>>
    /\ figures = 0
    /\ figpx = <<0, 0>>
    /\ fswrites = {}
    /\ run = 1
    /\ prev = [calls |-> <<>>]

(***************************************************************************)
(* main()                                                                  *)
(***************************************************************************)
\* a check that reports the missing root and carries on
CheckInputDirNoReturn ==
    /\ pc = "start"
    /\ log' = IF inroot THEN log ELSE Append(log, <<"error_root">>)
    /\ pc' = "mkroot"
    /\ UNCHANGED <<inroot, present, listing, outroot, outsub, out, mi, wav_files,
                   fi, total_files, processed_files, calls, figures, figpx,
                   fswrites, run, prev>>

\* if not input_dir.exists(): print(...); return
CheckInputDir ==
    /\ pc = "start"
    /\ IF inroot
         THEN /\ pc' = "mkroot"
              /\ log' = log
         ELSE /\ pc' = "returned"
              /\ log' = Append(log, <<"error_root">>)
    /\ UNCHANGED <<inroot, present, listing, outroot, outsub, out, mi, wav_files,
                   fi, total_files, processed_files, calls, figures, figpx,
                   fswrites, run, prev>>

\* output_dir.mkdir(exist_ok=True); the header; total_files = processed_files = 0
MakeOutputDir ==
    /\ pc = "mkroot"
    /\ \E r \in Mkdir(outroot) :
         IF r = "raise"
           THEN /\ pc' = "aborted"
                /\ UNCHANGED <<outroot, fswrites, log, total_files,
                               processed_files, mi>>
           ELSE /\ pc' = "loop"
                /\ outroot' = "dir"
                /\ fswrites' = IF r = "created"
                                 THEN fswrites \cup {<<"output_dir">>}
                                 ELSE fswrites
                /\ log' = Append(log, <<"header">>)
                /\ total_files' = 0
                /\ processed_files' = 0
                /\ mi' = 1
    /\ UNCHANGED <<inroot, present, listing, outsub, out, wav_files, fi, calls,
                   figures, figpx, run, prev>>

\* a skip that warns and then falls through to the method's body
SkipMethodNoContinue ==
    /\ pc = "loop"
    /\ mi <= Len(methods)
    /\ methods[mi] \notin present
    /\ log' = Append(Append(log, <<"warning", methods[mi]>>),
                     <<"processing", methods[mi], 0>>)
    /\ outsub' = [outsub EXCEPT ![methods[mi]] = "dir"]
    /\ fswrites' = fswrites \cup {<<"output_dir", methods[mi]>>}
    /\ wav_files' = <<>>
    /\ fi' = 1
    /\ pc' = "files"
    /\ UNCHANGED <<inroot, present, listing, outroot, out, mi, total_files,
                   processed_files, calls, figures, figpx, run, prev>>

\* if not method_dir.exists(): print(warning); continue
SkipMethod ==
    /\ pc = "loop"
    /\ mi <= Len(methods)
    /\ methods[mi] \notin present
    /\ log' = Append(log, <<"warning", methods[mi]>>)
    /\ mi' = mi + 1
    /\ UNCHANGED <<inroot, present, listing, outroot, outsub, out, pc, wav_files,
                   fi, total_files, processed_files, calls, figures, figpx,
                   fswrites, run, prev>>

\* output_method_dir.mkdir(exist_ok=True); wav_files = list(glob("*.wav"));
\* total_files += len(wav_files); the method's header line
EnterMethod ==
    /\ pc = "loop"
    /\ mi <= Len(methods)
    /\ methods[mi] \in present
    /\ \E r \in Mkdir(outsub[methods[mi]]) :
         IF r = "raise"
           THEN /\ pc' = "aborted"
                /\ UNCHANGED <<outsub, fswrites, wav_files, fi, total_files, log>>
           ELSE /\ pc' = "files"
                /\ outsub' = [outsub EXCEPT ![methods[mi]] = "dir"]
                /\ fswrites' = IF r = "created"
                                 THEN fswrites \cup {<<"output_dir", methods[mi]>>}
                                 ELSE fswrites
                /\ wav_files' = GlobWav(listing[methods[mi]])
                /\ fi' = 1
                /\ total_files' = total_files + Len(GlobWav(listing[methods[mi]]))
                /\ log' = Append(log, <<"processing", methods[mi],
                                        Len(GlobWav(listing[methods[mi]]))>>)
    /\ UNCHANGED <<inroot, present, listing, outroot, out, mi, processed_files,
                   calls, figures, figpx, run, prev>>

\* In the second run the Converter is the same deterministic function of the
\* audio file: it ends as it did in the first run.
Deterministic(audio, o) ==
    IF run = 1 THEN TRUE
    ELSE \A i \in 1..Len(prev.calls) :
            prev.calls[i].audio = audio => prev.calls[i].outcome = o

\* one pass of the inner for loop:
\* output_file = ...; create_spectrogram(wav_file, output_file); processed_files += 1
ConvertFile ==
    /\ pc = "files"
    /\ fi <= Len(wav_files)
    /\ \E o \in ConvertOutcomes :
         LET audio == <<methods[mi], wav_files[fi]>>
             path  == OutputFile(methods[mi], wav_files[fi])
         IN  /\ Deterministic(audio, o)
             /\ calls' = Append(calls, [audio |-> audio, output |-> path,
                                        outcome |-> o])
             /\ figpx' = IF FigureOpened(o)
                           THEN FigurePixels(DefaultFigsize, DefaultDpi)
                           ELSE figpx
             /\ figures' = FiguresAfter(figures, o)
             /\ out' = DestAfter(out, path, audio, o)
             /\ fswrites' = IF o \in {"ok", "save"}
                              THEN fswrites \cup {path} ELSE fswrites
             /\ IF Caught(o)
                  THEN /\ log' = Append(log, ProgressLine(path, audio, o))
                       /\ processed_files' = ProcessedAfter(processed_files, o)
                       /\ fi' = fi + 1
                       /\ pc' = "files"
                  ELSE /\ pc' = "aborted"
                       /\ UNCHANGED <<log, processed_files, fi>>
    /\ UNCHANGED <<inroot, present, listing, outroot, outsub, mi, wav_files,
                   total_files, run, prev>>

\* the inner for loop is exhausted: on to the next method
EndMethod ==
    /\ pc = "files"
    /\ fi > Len(wav_files)
    /\ mi' = mi + 1
    /\ pc' = "loop"
    /\ UNCHANGED <<inroot, present, listing, outroot, outsub, out, wav_files, fi,
                   total_files, processed_files, log, calls, figures, figpx,
                   fswrites, run, prev>>

\* the outer for loop is exhausted: the summary and the usage hint
Footer ==
    /\ pc = "loop"
    /\ mi > Len(methods)
    /\ log' = Append(log, <<"summary", processed_files, total_files>>)
    /\ pc' = "done"
    /\ UNCHANGED <<inroot, present, listing, outroot, outsub, out, mi, wav_files,
                   fi, total_files, processed_files, calls, figures, figpx,
                   fswrites, run, prev>>

\* the script is started a second time, in a new process, on the trees the
\* first run left behind
Rerun ==
    /\ run = 1
    /\ pc \in {"done", "returned"}
    /\ run' = 2
    /\ prev' = [out |-> out, outroot |-> outroot, outsub |-> outsub,
                total_files |-> total_files,
                processed_files |-> processed_files,
                calls |-> calls, log |-> log, pc |-> pc]
    /\ pc' = "start"
    /\ mi' = 1
    /\ wav_files' = <<>>
    /\ fi' = 1
    /\ total_files' = 0
    /\ processed_files' = 0
    /\ log' = <<>>
    /\ calls' = <<>>
    /\ figures' = 0
    /\ figpx' = <<0, 0>>
    /\ fswrites' = {}
    /\ UNCHANGED <<inroot, present, listing, outroot, outsub, out>>

Next ==
    \/ CheckInputDir
    \/ MakeOutputDir
    \/ SkipMethod
    \/ EnterMethod
    \/ ConvertFile
    \/ EndMethod
    \/ Footer

Spec == Init /\ [][Next]_vars

NextTwice == Next \/ Rerun

SpecTwice == Init /\ [][NextTwice]_vars

(***************************************************************************)
(* Vocabulary of the properties.                                           *)
(***************************************************************************)
ListedPresent == present \cap MethodSet

ListedAbsent == MethodSet \ present

\* the indices of the log lines of one kind
LinesOf(kind) == {i \in 1..Len(log) : log[i][1] = kind}

\* the indices of the calls that ended in the failure branch
FailedCalls == {i \in 1..Len(calls) : calls[i].outcome # "ok"}

OkCalls == {i \in 1..Len(calls) : calls[i].outcome = "ok"}

\* the complete images lying in the output tree
ImagesIn(files) == {p \in DOMAIN files : files[p][1] = "image"}

\* the position of a method in the list
MethodIndex(m) == CHOOSE i \in 1..Len(methods) : methods[i] = m

\* the methods whose pass of the outer loop has begun
Visited ==
    IF pc \in {"start", "mkroot", "returned"} THEN {}
    ELSE {methods[i] : i \in {k \in 1..Len(methods) :
                                  k < mi \/ (k = mi /\ pc = "files")}}

\* the main loop has been entered
InLoop == pc \in {"loop", "files", "done"}

(***************************************************************************)
(* C1: when the input root does not exist, the run prints the error and    *)
(* returns having written nothing: the output root and the output          *)
(* subdirectories are not created, no file is written and                  *)
(* create_spectrogram is never called.                                     *)
(***************************************************************************)
C1_MissingRootNoWork ==
    ~inroot =>
        /\ pc \in {"start", "returned"}
        /\ fswrites = {}
        /\ calls = <<>>
        /\ out = <<>>
        /\ \A m \in MethodSet : outsub[m] = "absent"
        /\ pc = "returned" => log = << <<"error_root">> >>

C1_Witness == ~inroot /\ pc = "returned" /\ outroot = "absent"

(***************************************************************************)
(* C2: a failed conversion never aborts the batch.  Every call of          *)
(* create_spectrogram, whatever its outcome, prints exactly one line (the  *)
(* failure line names the audio file) and leaves main in the inner loop    *)
(* with the same list of files, one position further; the calls made for   *)
(* the current method are its files in order; and at the footer every      *)
(* "*.wav" file of every present listed method has been passed to it.      *)
(***************************************************************************)
C2_CallStep ==
    Len(calls') # Len(calls) =>
        /\ Len(calls') = Len(calls) + 1
        /\ pc' = "files"
        /\ mi' = mi
        /\ wav_files' = wav_files
        /\ fi' = fi + 1
        /\ calls'[Len(calls')].audio = <<methods[mi], wav_files[fi]>>
        /\ log' = Append(log,
                    IF calls'[Len(calls')].outcome = "ok"
                      THEN <<"ok", calls'[Len(calls')].output>>
                      ELSE <<"error", calls'[Len(calls')].audio>>)

C2_Progress ==
    /\ pc = "files" =>
          /\ fi - 1 <= Len(calls)
          /\ \A k \in 1..(fi - 1) :
                calls[Len(calls) - (fi - 1) + k].audio = <<methods[mi], wav_files[k]>>
    /\ pc = "done" =>
          \A m \in ListedPresent : \A k \in 1..Len(listing[m]) :
              IsWav(listing[m][k]) =>
                  \E i \in 1..Len(calls) : calls[i].audio = <<m, listing[m][k]>>

C2_BadInputNeverAborts == [][C2_CallStep]_vars /\ []C2_Progress

C2_Witness ==
    /\ pc = "done"
    /\ \E i, j \in 1..Len(calls) :
          /\ i < j
          /\ calls[i].outcome # "ok"
          /\ calls[i].audio[1] # calls[j].audio[1]

(***************************************************************************)
(* C3: a missing input root is the only thing that ends the run early:     *)
(* when the input root exists, main never ends before the summary footer.  *)
(***************************************************************************)
C3_OnlyMissingRootEndsEarly == inroot => pc # "aborted"

(***************************************************************************)
(* C4: the attempted counter counts attempts.  Always                      *)
(* processed_files <= total_files; at the footer processed_files =         *)
(* total_files = the number of "*.wav" files in the listed method          *)
(* directories that exist, the summary line reports these two numbers,     *)
(* there is one failure line per failed conversion and one success line    *)
(* per other attempt, and (no two files of one directory sharing a stem)   *)
(* one complete image per successful conversion.                           *)
(***************************************************************************)
NoStemClash ==
    \A m \in ListedPresent : \A i, j \in 1..Len(listing[m]) :
        (i # j /\ IsWav(listing[m][i]) /\ IsWav(listing[m][j]))
            => Stem(listing[m][i]) # Stem(listing[m][j])

C4_AttemptsCounted ==
    /\ processed_files <= total_files
    /\ processed_files = Len(calls)
    /\ pc = "done" =>
          /\ processed_files = total_files
          /\ total_files = NumWavs(ListedPresent, listing)
          /\ log[Len(log)] = <<"summary", processed_files, total_files>>
          /\ Cardinality(LinesOf("error")) = Cardinality(FailedCalls)
          /\ Cardinality(LinesOf("ok")) = processed_files - Cardinality(FailedCalls)
          /\ NoStemClash => Cardinality(ImagesIn(out)) = Cardinality(OkCalls)

C4_Witness ==
    /\ pc = "done"
    /\ processed_files = 2
    /\ Cardinality(ListedPresent) = 1
    /\ Cardinality(FailedCalls) = 1
    /\ \E i \in FailedCalls : calls[i].outcome = "analysis"
    /\ Cardinality(ImagesIn(out)) = 1

(***************************************************************************)
(* C5: a listed method whose input subdirectory is absent gets exactly one *)
(* warning when its turn comes, no output subdirectory, no call of the     *)
(* Converter and no share in the totals; a present one gets no warning.    *)
(* At the footer the warnings number the absent listed methods, every      *)
(* present listed method has had its header line and all its files         *)
(* attempted, and the totals are those of the present ones.                *)
(***************************************************************************)
WarningsFor(m) == {i \in LinesOf("warning") : log[i][2] = m}

C5_AbsentMethodsSkipped ==
    /\ \A m \in MethodSet :
          Cardinality(WarningsFor(m)) =
              IF m \in Visited /\ m \notin present THEN 1 ELSE 0
    /\ \A m \in ListedAbsent :
          /\ outsub[m] = "absent"
          /\ <<"output_dir", m>> \notin fswrites
          /\ \A i \in 1..Len(calls) : calls[i].audio[1] # m
          /\ \A i \in LinesOf("processing") : log[i][2] # m
    /\ InLoop => total_files = NumWavs(Visited \cap present, listing)
    /\ pc = "done" =>
          /\ Cardinality(LinesOf("warning")) = Cardinality(ListedAbsent)
          /\ total_files = NumWavs(ListedPresent, listing)
          /\ processed_files = NumWavs(ListedPresent, listing)
          /\ \A m \in ListedPresent :
                /\ \E i \in LinesOf("processing") :
                      log[i] = <<"processing", m, Len(GlobWav(listing[m]))>>
                /\ outsub[m] = "dir"

C5_Witness ==
    /\ pc = "done"
    /\ ListedPresent = {"clean", "noisy"}
    /\ Cardinality(LinesOf("warning")) = 6
    /\ total_files = 2
    /\ processed_files = 2

(***************************************************************************)
(* C6: a failed conversion never leaves a partial image at the             *)
(* destination: every file in the output tree is a complete image.         *)
(***************************************************************************)
C6_NoPartialImage == \A p \in DOMAIN out : out[p] # <<"partial">>

(***************************************************************************)
(* C7 as stated: the default figsize and dpi give exactly 360 x 200        *)
(* pixels, width_units * dpi = 360 and height_units * dpi = 200.           *)
(***************************************************************************)
C7_Exactly360x200 ==
    figpx # <<0, 0>> => figpx = <<360 * 100, 200 * 100>>

(***************************************************************************)
(* C7 as amended: with the default figsize and dpi the width product is    *)
(* exactly 360 pixels (500 * 72 = 360 * 100) while the height product is   *)
(* 200.16 pixels (278 * 72 = 20016), which is 200 only once the fraction   *)
(* of a pixel is dropped.                                                  *)
(***************************************************************************)
C7_WidthExactHeightNear ==
    figpx # <<0, 0>> =>
        /\ figpx[1] = 360 * 100
        /\ figpx[2] = 200 * 100 + 16
        /\ figpx[2] \div 100 = 200

C7_Witness == figpx # <<0, 0>> /\ ImagesIn(out) # {}

(***************************************************************************)
(* C8: running the Driver a second time on unchanged input, with a         *)
(* Converter that ends on each file as it did before, is idempotent: the   *)
(* second run never stops on an existing directory and creates none, and   *)
(* it ends as the first did, with the same output tree (same files, same   *)
(* contents) and the same attempted and total counts.                      *)
(***************************************************************************)
C8_RerunIdempotent ==
    run = 2 =>
        /\ pc # "aborted"
        /\ \A w \in fswrites : w[1] # "output_dir"
        /\ pc \in {"done", "returned"} =>
              /\ pc = prev.pc
              /\ out = prev.out
              /\ outroot = prev.outroot
              /\ outsub = prev.outsub
              /\ total_files = prev.total_files
              /\ processed_files = prev.processed_files
              /\ log = prev.log

C8_Witness ==
    /\ run = 2
    /\ pc = "done"
    /\ processed_files = 2
    /\ \E i \in 1..Len(calls) : calls[i].outcome = "ok" /\ calls[i].output \in fswrites
    /\ FailedCalls # {}

(***************************************************************************)
(* C9: the calls of the Converter follow the listed order of the methods,  *)
(* all files of one method before any of a later one; every "*.wav" file   *)
(* of a present listed method is passed exactly once, with an output path  *)
(* in the output subdirectory of its method, and no other file ever; and   *)
(* distinct input files always get distinct output paths.                  *)
(***************************************************************************)
C9_Order ==
    /\ \A i, j \in 1..Len(calls) :
          i < j => MethodIndex(calls[i].audio[1]) <= MethodIndex(calls[j].audio[1])
    /\ \A i, j \in 1..Len(calls) : i # j => calls[i].audio # calls[j].audio
    /\ \A i \in 1..Len(calls) :
          /\ calls[i].audio[1] \in ListedPresent
          /\ \E k \in 1..Len(listing[calls[i].audio[1]]) :
                listing[calls[i].audio[1]][k] = calls[i].audio[2]
          /\ IsWav(calls[i].audio[2])
          /\ calls[i].output[1] = calls[i].audio[1]
    /\ pc = "done" =>
          \A m \in ListedPresent : \A k \in 1..Len(listing[m]) :
              IsWav(listing[m][k]) =>
                  \E i \in 1..Len(calls) : calls[i].audio = <<m, listing[m][k]>>

C9_CallSequence ==
    /\ C9_Order
    /\ \A i, j \in 1..Len(calls) :
          calls[i].audio # calls[j].audio => calls[i].output # calls[j].output

(***************************************************************************)
(* What the code does keep of C9: the order, the exactly-once and the      *)
(* output directory as stated; the output name is the input name with      *)
(* ".wav" replaced by ".png", except that a file named exactly ".wav"      *)
(* keeps its whole name (".wav.png"); and two distinct input files share   *)
(* an output path only when they are ".wav" and ".wav.wav" of one method.  *)
(***************************************************************************)
\* the name with its trailing ".wav" replaced by ".png"
WavToPng(name) == SubSeq(name, 1, Len(name) - 2) \o <<".", "png">>

DotWav == <<".", "wav">>

CallSequenceButDotWav ==
    /\ C9_Order
    /\ \A i \in 1..Len(calls) :
          calls[i].output[2] =
              IF calls[i].audio[2] = DotWav
                THEN DotWav \o <<".", "png">>
                ELSE WavToPng(calls[i].audio[2])
    /\ \A i, j \in 1..Len(calls) :
          (calls[i].audio # calls[j].audio /\ calls[i].output = calls[j].output)
              => /\ calls[i].audio[1] = calls[j].audio[1]
                 /\ {calls[i].audio[2], calls[j].audio[2]} = {DotWav, DotWav \o DotWav}

(***************************************************************************)
(* C10: nothing but the two counters is carried from one file to the       *)
(* next: no figure opened by a call of create_spectrogram is still open    *)
(* once the call has returned.                                             *)
(***************************************************************************)
C10_NoFigureCarriedOver == figures = 0

====
